---------------------------- MODULE Spec2Model ----------------------------
(***************************************************************************)
(* A model of eodal's STAC metadata client                                 *)
(* (eodal/metadata/stac/client.py).                                        *)
(*                                                                         *)
(* Python values are modelled as follows.  A dict is a function whose      *)
(* DOMAIN is the set of its keys, so that a missing key (KeyError) is a    *)
(* key outside the DOMAIN.  A text that the code takes apart or puts       *)
(* together (a date-time string, a tile id) is a sequence of one-character *)
(* strings; a text that is only passed on is a TLA+ string.  A raised      *)
(* exception is the status of the call's outcome.                          *)
(***************************************************************************)
EXTENDS Integers, Sequences, FiniteSets, TLC

VARIABLES
    Settings,   \* the settings object read by the client (client.py:20)
    catalog,    \* the 'features' list the STAC backend answers a search with
    call        \* the sensor/STAC call that has just ended, or NoCall

vars == <<Settings, catalog, call>>

\* The longest 'features' list a search answers with.
MaxScenes == 2

(***************************************************************************)
(* Texts                                                                   *)
(***************************************************************************)
DigitChars == <<"0", "1", "2", "3", "4", "5", "6", "7", "8", "9">>

IsDigit(c) == \E i \in 1..10 : DigitChars[i] = c

DigitVal(c) == (CHOOSE i \in 1..10 : DigitChars[i] = c) - 1

\* The number written by the digits t[i..j].
RECURSIVE NumVal(_, _, _)
NumVal(t, i, j) ==
    IF j < i THEN 0 ELSE 10 * NumVal(t, i, j - 1) + DigitVal(t[j])

\* n written with exactly w digits (zero padded), as "%m" and "%d" of
\* strftime write a month and a day (w = 2).
RECURSIVE Digits(_, _)
Digits(n, w) ==
    IF w = 0 THEN <<>> ELSE Append(Digits(n \div 10, w - 1), DigitChars[(n % 10) + 1])

\* str(n) of a non-negative integer.
RECURSIVE StrInt(_)
StrInt(n) ==
    IF n < 10 THEN <<DigitChars[n + 1]>>
    ELSE Append(StrInt(n \div 10), DigitChars[(n % 10) + 1])

\* str(v) of a property value: an integer or a text.
Str(v) == IF v.type = "int" THEN StrInt(v.val) ELSE v.val

\* "".join(parts)
RECURSIVE Join(_)
Join(parts) ==
    IF parts = <<>> THEN <<>> ELSE Head(parts) \o Join(Tail(parts))

\* text.split(sep)[0]: the text before the first sep, the whole text when
\* it holds none.
RECURSIVE SplitFirst(_, _)
SplitFirst(text, sep) ==
    IF text = <<>> \/ Head(text) = sep THEN <<>>
    ELSE <<Head(text)>> \o SplitFirst(Tail(text), sep)

(***************************************************************************)
(* Dates and date-times                                                    *)
(***************************************************************************)
\* date.strftime("%Y-%m-%d") (client.py:50).  The C library of the platform
\* writes "%Y" without padding, so a year below 1000 has fewer than four
\* digits ('999-01-01'); "%m" and "%d" are written with two digits.
strftime(d) ==
    StrInt(d.year) \o <<"-">> \o Digits(d.month, 2) \o <<"-">> \o Digits(d.day, 2)

\* The formats the code parses with, character by character.
FmtDate == <<"%", "Y", "-", "%", "m", "-", "%", "d">>
FmtSec == <<"%", "Y", "-", "%", "m", "-", "%", "d", "T",
            "%", "H", ":", "%", "M", ":", "%", "S", "Z">>
FmtFrac == <<"%", "Y", "-", "%", "m", "-", "%", "d", "T",
             "%", "H", ":", "%", "M", ":", "%", "S", ".", "%", "f", "Z">>

\* The directives of these formats.
Directives == {"Y", "m", "d", "H", "M", "S", "f"}

\* The directives strptime knows besides: those of the names of days and
\* months, of weeks and days of the year, of the twelve-hour clock, of time
\* zones and of the locale's own formats.
OtherDirectives ==
    {"a", "A", "b", "B", "c", "G", "I", "j", "p", "U", "u", "V", "w", "W", "x", "X",
     "y", "z", "Z"}

\* The characters that stand for themselves in a format: the letters, the
\* digits and the punctuation of ASCII but "%" and the grave accent.
LiteralChars ==
    {"!", "\"", "#", "$", "&", "'", "(", ")", "*", "+", ",", "-", ".",
     "/", "0", "1", "2", "3", "4", "5", "6", "7", "8", "9", ":", ";",
     "<", "=", ">", "?", "@", "A", "B", "C", "D", "E", "F", "G", "H",
     "I", "J", "K", "L", "M", "N", "O", "P", "Q", "R", "S", "T", "U",
     "V", "W", "X", "Y", "Z", "[", "\\", "]", "^", "_", "a", "b",
     "c", "d", "e", "f", "g", "h", "i", "j", "k", "l", "m", "n", "o",
     "p", "q", "r", "s", "t", "u", "v", "w", "x", "y", "z", "{", "|",
     "}", "~"}

\* The letters after the "%" of the format from position j on, in order;
\* "%%" is no directive, and a "%" at the end has the letter "".
RECURSIVE DirectivesOf(_, _)
DirectivesOf(fmt, j) ==
    IF j > Len(fmt) THEN <<>>
    ELSE IF fmt[j] # "%" THEN DirectivesOf(fmt, j + 1)
    ELSE IF j = Len(fmt) THEN <<"">>
    ELSE IF fmt[j + 1] = "%" THEN DirectivesOf(fmt, j + 2)
    ELSE <<fmt[j + 1]>> \o DirectivesOf(fmt, j + 2)

\* The formats of the model: literal characters, "%%" and directives, none
\* of them one of OtherDirectives.  The formats of client.py:122 and of the
\* settings are of this kind; strptime is not defined here for a format
\* with whitespace or with a directive of OtherDirectives, nor for texts
\* with characters outside ASCII.
IsFormat(fmt) ==
    /\ \A j \in 1..Len(fmt) : fmt[j] \in LiteralChars \cup {"%"}
    /\ \A k \in 1..Len(DirectivesOf(fmt, 1)) : DirectivesOf(fmt, 1)[k] \notin OtherDirectives

\* The error of the format itself: a "%" at the end or before a letter that
\* is no directive is a ValueError; a directive that occurs twice makes a
\* regular expression that does not compile (re.error).
FormatError(fmt) ==
    LET dirs == DirectivesOf(fmt, 1)
    IN  IF \E k \in 1..Len(dirs) : dirs[k] \notin Directives THEN "ValueError"
        ELSE IF \E k \in 1..Len(dirs) : \E l \in 1..Len(dirs) : k # l /\ dirs[k] = dirs[l]
            THEN "re.error"
        ELSE "none"

D09 == {"0", "1", "2", "3", "4", "5", "6", "7", "8", "9"}
D19 == D09 \ {"0"}
D05 == {"0", "1", "2", "3", "4", "5"}

\* What strptime takes for a directive: the alternatives in the order in
\* which they are tried, each a sequence of character classes.
\*   %Y  \d\d\d\d                         %m  1[0-2]|0[1-9]|[1-9]
\*   %d  3[0-1]|[1-2]\d|0[1-9]|[1-9]| [1-9]
\*   %H  2[0-3]|[0-1]\d|\d                %M  [0-5]\d|\d
\*   %S  6[0-1]|[0-5]\d|\d                %f  [0-9]{1,6}
Alternatives(dir) ==
    CASE dir = "Y" -> <<<<D09, D09, D09, D09>>>>
      [] dir = "m" -> <<<<{"1"}, {"0", "1", "2"}>>, <<{"0"}, D19>>, <<D19>>>>
      [] dir = "d" -> <<<<{"3"}, {"0", "1"}>>, <<{"1", "2"}, D09>>, <<{"0"}, D19>>,
                        <<D19>>, <<{" "}, D19>>>>
      [] dir = "H" -> <<<<{"2"}, {"0", "1", "2", "3"}>>, <<{"0", "1"}, D09>>, <<D09>>>>
      [] dir = "M" -> <<<<D05, D09>>, <<D09>>>>
      [] dir = "S" -> <<<<{"6"}, {"0", "1"}>>, <<D05, D09>>, <<D09>>>>
      [] OTHER -> <<<<D09, D09, D09, D09, D09, D09>>, <<D09, D09, D09, D09, D09>>,
                    <<D09, D09, D09, D09>>, <<D09, D09, D09>>, <<D09, D09>>, <<D09>>>>

\* The characters of text from position i on are of the classes of pat.
MatchesAt(text, i, pat) ==
    /\ i + Len(pat) - 1 <= Len(text)
    /\ \A k \in 1..Len(pat) : text[i + k - 1] \in pat[k]

UpperCase == <<"A", "B", "C", "D", "E", "F", "G", "H", "I", "J", "K", "L", "M",
               "N", "O", "P", "Q", "R", "S", "T", "U", "V", "W", "X", "Y", "Z">>
LowerCase == <<"a", "b", "c", "d", "e", "f", "g", "h", "i", "j", "k", "l", "m",
               "n", "o", "p", "q", "r", "s", "t", "u", "v", "w", "x", "y", "z">>

\* c.lower(): the literal characters of a format are matched without regard
\* to case.
Lower(c) ==
    IF \E k \in 1..26 : UpperCase[k] = c
    THEN LowerCase[CHOOSE k \in 1..26 : UpperCase[k] = c]
    ELSE c

Pow10(n) == CASE n = 0 -> 1 [] n = 1 -> 10 [] n = 2 -> 100 [] n = 3 -> 1000
              [] n = 4 -> 10000 [] n = 5 -> 100000 [] OTHER -> 1000000

\* The value of the n characters that a directive took at position i: the
\* number they write (int() skips the blank that %d may take), for %f
\* scaled to microseconds.
FieldVal(dir, text, i, n) ==
    LET v == IF text[i] = " " THEN NumVal(text, i + 1, i + n - 1)
             ELSE NumVal(text, i, i + n - 1)
    IN  IF dir = "f" THEN v * Pow10(6 - n) ELSE v

NoMatch == [ok |-> FALSE, end |-> 0, dt |-> <<>>]

\* The match of the format from its position j on against the text from its
\* position i on, with the fields read so far: the first match in the order
\* of the alternatives, as the regular expression strptime compiles the
\* format to finds it.  A directive tries its alternatives in turn and goes
\* on to the next when the rest of the format does not match after one;
\* "%%" and any other character take themselves, a letter in either case.
\* The format is one without FormatError.
RECURSIVE Match(_, _, _, _, _)
RECURSIVE TryAlternatives(_, _, _, _, _, _)
Match(text, i, fmt, j, acc) ==
    IF j > Len(fmt) THEN [ok |-> TRUE, end |-> i, dt |-> acc]
    ELSE IF fmt[j] = "%" THEN
        IF fmt[j + 1] = "%" THEN
            IF i <= Len(text) /\ text[i] = "%"
            THEN Match(text, i + 1, fmt, j + 2, acc)
            ELSE NoMatch
        ELSE TryAlternatives(text, i, fmt, j, acc, 1)
    ELSE IF i <= Len(text) /\ Lower(text[i]) = Lower(fmt[j])
        THEN Match(text, i + 1, fmt, j + 1, acc)
        ELSE NoMatch

TryAlternatives(text, i, fmt, j, acc, k) ==
    LET dir == fmt[j + 1]
        alts == Alternatives(dir)
    IN  IF k > Len(alts) THEN NoMatch
        ELSE IF ~MatchesAt(text, i, alts[k])
            THEN TryAlternatives(text, i, fmt, j, acc, k + 1)
        ELSE LET n == Len(alts[k])
                 rest == Match(text, i + n, fmt, j + 2,
                               [acc EXCEPT ![dir] = FieldVal(dir, text, i, n)])
             IN  IF rest.ok THEN rest
                 ELSE TryAlternatives(text, i, fmt, j, acc, k + 1)

IsLeap(y) == y % 4 = 0 /\ (y % 100 # 0 \/ y % 400 = 0)

DaysInMonth(y, m) ==
    IF m = 2 THEN (IF IsLeap(y) THEN 29 ELSE 28)
    ELSE IF m \in {4, 6, 9, 11} THEN 30
    ELSE 31

\* The fields make a date-time: datetime() takes the years 1 to 9999, the
\* days the month has and the seconds 0 to 59.
ValidDateTime(dt) ==
    /\ dt.Y \in 1..9999
    /\ dt.d <= DaysInMonth(dt.Y, dt.m)
    /\ dt.S <= 59

\* What strptime raises.
Failed(error) == [ok |-> FALSE, error |-> error, dt |-> <<>>]

\* datetime.strptime(text, fmt) (client.py:121-127), for the formats of
\* IsFormat.  ok is FALSE where strptime raises, and error is what it
\* raises: the error of the format, or a ValueError when the text does not
\* match the format, text remains after the match, or the fields read make
\* no date-time.  Fields the format does not name keep the values of
\* 1900-01-01 00:00:00.
strptime(text, fmt) ==
    CASE IsFormat(fmt) ->
        IF FormatError(fmt) # "none" THEN Failed(FormatError(fmt))
        ELSE LET r == Match(text, 1, fmt, 1,
                            [Y |-> 1900, m |-> 1, d |-> 1, H |-> 0, M |-> 0, S |-> 0,
                             f |-> 0])
             IN  IF r.ok /\ r.end = Len(text) + 1 /\ ValidDateTime(r.dt)
                 THEN [ok |-> TRUE, error |-> "none", dt |-> r.dt]
                 ELSE Failed("ValueError")

\* A date with day and month taken for each other.
DateOf_DayForMonth(dt) == [year |-> dt.Y, month |-> dt.d, day |-> dt.m]

\* datetime.date()
DateOf(dt) == [year |-> dt.Y, month |-> dt.m, day |-> dt.d]

(***************************************************************************)
(* The settings object (eodal.config): the STAC providers with their       *)
(* collection names and their names of the Sentinel-2 properties, the      *)
(* feature flags and the credentials.                                      *)
(***************************************************************************)
MSPC ==
    [URL |-> "https://planetarycomputer.microsoft.com/api/stac/v1",
     S2L1C |-> "sentinel-2-l1c",
     S2L2A |-> "sentinel-2-l2a",
     Sentinel2 |->
        [product_uri |-> "id",
         scene_id |-> "s2:granule_id",
         platform |-> "platform",
         tile_id |-> [list |-> FALSE, names |-> <<"s2:mgrs_tile">>],
         sensing_time |-> "datetime",
         sensing_time_fmt |-> FmtFrac,
         cloud_cover |-> "eo:cloud_cover",
         epsg |-> "proj:epsg",
         sun_azimuth_angle |-> "s2:mean_solar_azimuth",
         sun_zenith_angle |-> "s2:mean_solar_zenith"]]

AWS ==
    [URL |-> "https://earth-search.aws.element84.com/v0",
     S2L1C |-> "sentinel-s2-l1c",
     S2L2A |-> "sentinel-s2-l2a",
     Sentinel2 |->
        [product_uri |-> "sentinel:product_id",
         scene_id |-> "id",
         platform |-> "platform",
         tile_id |-> [list |-> TRUE,
                      names |-> <<"sentinel:utm_zone", "sentinel:latitude_band",
                                  "sentinel:grid_square">>],
         sensing_time |-> "datetime",
         sensing_time_fmt |-> FmtSec,
         cloud_cover |-> "eo:cloud_cover",
         epsg |-> "proj:epsg",
         sun_azimuth_angle |-> "view:sun_azimuth",
         sun_zenith_angle |-> "view:sun_elevation"]]

STAC_Providers == [MSPC |-> MSPC, AWS |-> AWS]

\* The values the settings object takes.
SettingsSpace ==
    [USE_STAC : BOOLEAN,
     STAC_BACKEND : {STAC_Providers.MSPC, STAC_Providers.AWS},
     PC_SDK_SUBSCRIPTION_KEY : {"", "0123abcd"},
     MAX_ITEMS : {500},
     LIMIT_ITEMS : {5000}]

\* eodal.utils.sentinel2.ProcessingLevels, by member name
ProcessingLevels == {"L1C", "L2A"}

(***************************************************************************)
(* The scenes a search may answer with.  Every scene carries the           *)
(* properties under the names of both providers, so that it can be mapped  *)
(* under either; the variants move or drop single keys.                    *)
(***************************************************************************)
TxtV(s) == [type |-> "str", val |-> s]
IntV(n) == [type |-> "int", val |-> n]

DtFracA == <<"2", "0", "2", "2", "-", "0", "7", "-", "0", "1", "T",
             "1", "0", ":", "3", "0", ":", "3", "1", ".", "0", "2", "4", "Z">>
\* a lower-case "z" at the end
DtFracB == <<"2", "0", "2", "2", "-", "0", "7", "-", "0", "3", "T",
             "1", "0", ":", "2", "0", ":", "2", "1", ".", "5", "z">>
\* month, day and second written with one digit
DtSecC == <<"2", "0", "2", "2", "-", "7", "-", "6", "T",
            "1", "0", ":", "4", "0", ":", "9", "Z">>
DtSecE == <<"2", "0", "2", "2", "-", "0", "7", "-", "1", "1", "T",
            "1", "0", ":", "3", "0", ":", "2", "9", "Z">>
\* a day the month does not have
DtFracJ == <<"2", "0", "2", "2", "-", "0", "2", "-", "3", "0", "T",
             "1", "0", ":", "3", "0", ":", "3", "1", ".", "0", "2", "4", "Z">>

Props(granule, product, cc, dt) ==
    ("s2:granule_id" :> granule) @@ ("sentinel:product_id" :> product)
    @@ ("platform" :> "Sentinel-2A") @@ ("eo:cloud_cover" :> cc) @@ ("datetime" :> dt)
    @@ ("proj:epsg" :> 32632)
    @@ ("s2:mgrs_tile" :> TxtV(<<"3", "2", "T", "M", "T">>))
    @@ ("sentinel:utm_zone" :> IntV(32)) @@ ("sentinel:latitude_band" :> TxtV(<<"T">>))
    @@ ("sentinel:grid_square" :> TxtV(<<"M", "T">>))
    @@ ("s2:mean_solar_azimuth" :> 150) @@ ("s2:mean_solar_zenith" :> 30)
    @@ ("view:sun_azimuth" :> 151) @@ ("view:sun_elevation" :> 60)

Item(id, props, assets) ==
    ("id" :> id) @@ ("properties" :> props) @@ ("assets" :> [B04 |-> assets])

\* d without its key k
Without(d, k) == [x \in DOMAIN d \ {k} |-> d[x]]

ScA == Item("S2A_A", Props("GR_A", "PR_A", 10, DtFracA), "a/B04.tif")
ScB == Item("S2A_B", Props("GR_B", "PR_B", 50, DtFracB), "b/B04.tif")
ScC == Item("S2A_C", Props("GR_C", "PR_C", 10, DtSecC), "c/B04.tif")
\* the configured names of both identifiers at the top level and in the properties
ScE == ("sentinel:product_id" :> "PR_E_top")
       @@ Item("S2A_E_top", ("id" :> "S2A_E_props") @@ Props("GR_E", "PR_E_props", 50, DtSecE),
               "e/B04.tif")
\* no "id" at all
ScF == Without(Item("S2A_F", Props("GR_F", "PR_F", 10, DtFracA), "f/B04.tif"), "id")
\* no platform, and cloudier than any threshold but the largest
ScG == Item("S2A_G", Without(Props("GR_G", "PR_G", 50, DtFracB), "platform"), "g/B04.tif")
\* "id" in the properties only
ScH == Without(Item("S2A_H", ("id" :> "S2A_H_props") @@ Props("GR_H", "PR_H", 10, DtFracB),
                    "h/B04.tif"), "id")
\* no assets
ScI == Without(Item("S2A_I", Props("GR_I", "PR_I", 10, DtFracA), "i/B04.tif"), "assets")

\* a sensing time that is no date
ScJ == Item("S2A_J", Props("GR_J", "PR_J", 10, DtFracJ), "j/B04.tif")

SceneUniverse == {ScA, ScB, ScC, ScE, ScF, ScG, ScH, ScI, ScJ}

RECURSIVE SeqsUpTo(_, _)
SeqsUpTo(S, n) ==
    IF n = 0 THEN {<<>>}
    ELSE LET shorter == SeqsUpTo(S, n - 1)
         IN  shorter \cup {Append(q, x) : q \in {p \in shorter : Len(p) = n - 1}, x \in S}

Catalogs == SeqsUpTo(SceneUniverse, MaxScenes)

(***************************************************************************)
(* Callers' arguments                                                      *)
(***************************************************************************)
Date(y, m, d) == [year |-> y, month |-> m, day |-> d]

\* The keyword arguments a sensor function gets once prepare_bbox has put
\* the bounding box in: without a 'collection' of the caller's; with one,
\* and with a year of fewer than four digits; with a keyword that
\* query_stac does not take.
KwargsSpace ==
    {[date_start |-> Date(2022, 5, 1), date_end |-> Date(2022, 5, 31),
      bounding_box |-> "POLYGON_A"],
     [date_start |-> Date(999, 12, 9), date_end |-> Date(2023, 1, 15),
      bounding_box |-> "POLYGON_B", collection |-> "landsat-c2-l2"],
     [date_start |-> Date(2022, 5, 1), date_end |-> Date(2022, 5, 31),
      bounding_box |-> "POLYGON_A", vector_features |-> "aoi.gpkg"]}

Thresholds == {10, 50}

Has(d, k) == k \in DOMAIN d

\* kwargs.setdefault("collection", c): a collection of the caller's stays.
WithCollection_SetDefault(kwargs, c) ==
    [k \in DOMAIN kwargs \cup {"collection"} |-> IF Has(kwargs, k) THEN kwargs[k] ELSE c]

\* kwargs.update({"collection": c})
WithCollection(kwargs, c) ==
    [k \in DOMAIN kwargs \cup {"collection"} |->
        IF k = "collection" THEN c ELSE kwargs[k]]

(***************************************************************************)
(* query_stac                                                              *)
(***************************************************************************)
\* The date range of the search (client.py:50).
DateStr(date_start, date_end) ==
    strftime(date_start) \o <<"/">> \o strftime(date_end)

\* The search query_stac issues (client.py:48-58): the backend it opens
\* and the arguments of cat.search.
SearchRequest(S, date_start, date_end, collection, bounding_box) ==
    [url |-> S.STAC_BACKEND.URL,
     collections |-> collection,
     intersects |-> bounding_box,
     datetime |-> DateStr(date_start, date_end),
     max_items |-> S.MAX_ITEMS,
     limit |-> S.LIMIT_ITEMS]

\* The 'features' of the item collection (client.py:61-63).
Features(items) == items

\* Where the backend fails a call: nowhere, when it is opened (Client.open,
\* client.py:48) or when the search is run (client.py:52-61).  The status
\* "APIError" stands for whatever exception the library raises there;
\* query_stac catches none.
Faults == {"none", "open", "search"}

\* query_stac (client.py:22-64).  cat is the item collection the backend
\* answers the search with.  The outcome holds the searches issued, and
\* the scenes returned when status is "ok".
query_stac(S, cat, fault, date_start, date_end, collection, bounding_box) ==
    LET request == SearchRequest(S, date_start, date_end, collection, bounding_box)
    IN  CASE fault = "open" -> [status |-> "APIError", scenes |-> <<>>, searches |-> <<>>]
          [] fault = "search" ->
                [status |-> "APIError", scenes |-> <<>>, searches |-> <<request>>]
          [] OTHER -> [status |-> "ok", scenes |-> Features(cat), searches |-> <<request>>]

\* The parameters of query_stac (client.py:22-27).
QueryStacParams == {"date_start", "date_end", "collection", "bounding_box"}

\* query_stac(**kwargs) (client.py:89, 168): a keyword that is no parameter
\* of query_stac, or a parameter without a keyword, is a TypeError of the
\* call, before query_stac does anything.
QueryStacKwargs(S, cat, fault, kwargs) ==
    IF DOMAIN kwargs # QueryStacParams
    THEN [status |-> "TypeError", scenes |-> <<>>, searches |-> <<>>]
    ELSE query_stac(S, cat, fault, kwargs.date_start, kwargs.date_end,
                    kwargs.collection, kwargs.bounding_box)

(***************************************************************************)
(* sentinel2                                                               *)
(***************************************************************************)
\* eval(f"Settings.STAC_BACKEND.S2{processing_level.name}") (client.py:85)
ProcessingLevelStac(S, processing_level) ==
    IF processing_level = "L1C" THEN S.STAC_BACKEND.S2L1C ELSE S.STAC_BACKEND.S2L2A

\* client.py:99-104
TileId(props, s2) ==
    IF s2.tile_id.list
    THEN Join([i \in 1..Len(s2.tile_id.names) |-> Str(props[s2.tile_id.names[i]])])
    ELSE props[s2.tile_id.names[1]]

\* The lookup of product_uri in the order of scene_id.
ProductUri_PropsFirst(scene, props, s2) ==
    IF Has(props, s2.product_uri) THEN props[s2.product_uri] ELSE scene[s2.product_uri]

\* client.py:107-110: the scene item first, its properties on KeyError
ProductUri(scene, props, s2) ==
    IF Has(scene, s2.product_uri) THEN scene[s2.product_uri] ELSE props[s2.product_uri]

\* client.py:112-115: the properties first, the scene item on KeyError
SceneId(scene, props, s2) ==
    IF Has(props, s2.scene_id) THEN props[s2.scene_id] ELSE scene[s2.scene_id]

\* The cloud-cover test with a strict comparison.
KeepScene_Strict(meta_dict, cloud_cover_threshold) ==
    meta_dict.cloudy_pixel_percentage < cloud_cover_threshold

\* client.py:137
KeepScene(meta_dict, cloud_cover_threshold) ==
    meta_dict.cloudy_pixel_percentage <= cloud_cover_threshold

Raised(error) == [error |-> error, meta_dict |-> <<>>]

\* The body of the loop up to the cloud-cover test (client.py:97-133): the
\* record built from one scene, or the first exception raised on the way,
\* in the order in which Python evaluates the lookups.
SceneMeta(scene, s2) ==
    IF ~Has(scene, "properties") THEN Raised("KeyError")
    ELSE LET props == scene["properties"] IN
    IF \E i \in 1..Len(s2.tile_id.names) : ~Has(props, s2.tile_id.names[i])
        THEN Raised("KeyError")
    ELSE IF ~Has(scene, s2.product_uri) /\ ~Has(props, s2.product_uri)
        THEN Raised("KeyError")
    ELSE IF ~Has(props, s2.scene_id) /\ ~Has(scene, s2.scene_id)
        THEN Raised("KeyError")
    ELSE IF ~Has(props, s2.platform) \/ ~Has(props, s2.sensing_time)
        THEN Raised("KeyError")
    ELSE IF ~strptime(SplitFirst(props[s2.sensing_time], "T"), FmtDate).ok
        THEN Raised(strptime(SplitFirst(props[s2.sensing_time], "T"), FmtDate).error)
    ELSE IF ~Has(props, s2.cloud_cover) \/ ~Has(props, s2.epsg)
        THEN Raised("KeyError")
    ELSE IF ~strptime(props[s2.sensing_time], s2.sensing_time_fmt).ok
        THEN Raised(strptime(props[s2.sensing_time], s2.sensing_time_fmt).error)
    ELSE IF ~Has(props, s2.sun_azimuth_angle) \/ ~Has(props, s2.sun_zenith_angle)
        THEN Raised("KeyError")
    ELSE IF ~Has(scene, "assets")
        THEN Raised("KeyError")
    ELSE [error |-> "none",
          meta_dict |->
            [product_uri |-> ProductUri(scene, props, s2),
             scene_id |-> SceneId(scene, props, s2),
             spacecraft_name |-> props[s2.platform],
             tile_id |-> TileId(props, s2),
             sensing_date |->
                DateOf(strptime(SplitFirst(props[s2.sensing_time], "T"), FmtDate).dt),
             cloudy_pixel_percentage |-> props[s2.cloud_cover],
             epsg |-> props[s2.epsg],
             sensing_time |-> strptime(props[s2.sensing_time], s2.sensing_time_fmt).dt,
             sun_azimuth_angle |-> props[s2.sun_azimuth_angle],
             sun_zenith_angle |-> props[s2.sun_zenith_angle],
             assets |-> scene["assets"]]]

\* What a call leaves behind: the exception it ended with or "ok", whether
\* a table was returned and its records, and the searches it issued.
Raise(error, searches) ==
    [status |-> error, returned |-> FALSE, rows |-> <<>>, searches |-> searches]

Return(rows, searches) ==
    [status |-> "ok", returned |-> TRUE, rows |-> rows, searches |-> searches]

\* An exception in the loop body that ends the loop and lets the call return
\* the records built so far.
OnSceneError_Partial(error, metadata_list, searches) == Return(metadata_list, searches)

\* An exception raised in the loop body: nothing catches it (client.py:94-138),
\* so it ends the call and the metadata_list built so far is lost.
OnSceneError(error, metadata_list, searches) == Raise(error, searches)

\* The loop over the scenes (client.py:93-141), from scene i on, with the
\* metadata_list built so far.
RECURSIVE Sentinel2Loop(_, _, _, _, _, _)
Sentinel2Loop(scenes, i, s2, cloud_cover_threshold, metadata_list, searches) ==
    IF i > Len(scenes) THEN Return(metadata_list, searches)
    ELSE LET m == SceneMeta(scenes[i], s2)
         IN  IF m.error # "none" THEN OnSceneError(m.error, metadata_list, searches)
             ELSE Sentinel2Loop(scenes, i + 1, s2, cloud_cover_threshold,
                                IF KeepScene(m.meta_dict, cloud_cover_threshold)
                                THEN Append(metadata_list, m.meta_dict)
                                ELSE metadata_list,
                                searches)

\* sentinel2 (client.py:66-141)
sentinel2(S, cat, fault, cloud_cover_threshold, processing_level, kwargs) ==
    LET kw == WithCollection(kwargs, ProcessingLevelStac(S, processing_level))
        q == QueryStacKwargs(S, cat, fault, kw)
    IN  IF q.status # "ok" THEN Raise(q.status, q.searches)
        ELSE Sentinel2Loop(q.scenes, 1, S.STAC_BACKEND.Sentinel2,
                           cloud_cover_threshold, <<>>, q.searches)

(***************************************************************************)
(* sentinel1_rtc                                                           *)
(***************************************************************************)
\* The checks without the one of the subscription key.
RtcCheck_NoKeyCheck(S) ==
    IF ~S.USE_STAC THEN "This method requires STAC"
    ELSE IF S.STAC_BACKEND # STAC_Providers.MSPC
        THEN "This method requires Microsoft Planetary Computer"
    ELSE "none"

\* The checks without the one of USE_STAC.
RtcCheck_NoStacCheck(S) ==
    IF S.STAC_BACKEND # STAC_Providers.MSPC
        THEN "This method requires Microsoft Planetary Computer"
    ELSE IF S.PC_SDK_SUBSCRIPTION_KEY = ""
        THEN "This method requires a valid Planetary Computer API key"
    ELSE "none"

\* The checks of the provider and its status (client.py:156-162): "none",
\* or the message of the ValueError raised.
RtcCheck(S) ==
    IF ~S.USE_STAC THEN "This method requires STAC"
    ELSE IF S.STAC_BACKEND # STAC_Providers.MSPC
        THEN "This method requires Microsoft Planetary Computer"
    ELSE IF S.PC_SDK_SUBSCRIPTION_KEY = ""
        THEN "This method requires a valid Planetary Computer API key"
    ELSE "none"

\* client.py:165
RtcCollection == "sentinel-1-rtc"

\* The loop over the scenes (client.py:169-175).
RECURSIVE Sentinel1Loop(_, _, _, _)
Sentinel1Loop(scenes, i, metadata_list, searches) ==
    IF i > Len(scenes) THEN Return(metadata_list, searches)
    ELSE IF ~Has(scenes[i], "properties") \/ ~Has(scenes[i], "assets")
        THEN OnSceneError("KeyError", metadata_list, searches)
    ELSE Sentinel1Loop(scenes, i + 1,
                       Append(metadata_list,
                              ("assets" :> scenes[i]["assets"]) @@ scenes[i]["properties"]),
                       searches)

\* sentinel1_rtc (client.py:143-175)
sentinel1_rtc(S, cat, fault, kwargs) ==
    IF RtcCheck(S) # "none" THEN Raise("ValueError", <<>>)
    ELSE LET kw == WithCollection(kwargs, RtcCollection)
             q == QueryStacKwargs(S, cat, fault, kw)
         IN  IF q.status # "ok" THEN Raise(q.status, q.searches)
             ELSE Sentinel1Loop(q.scenes, 1, <<>>, q.searches)

(***************************************************************************)
(* The calls                                                               *)
(***************************************************************************)
NoCall == [fn |-> "none"]

\* Settings.USE_STAC = b, as the callers set it (test_mapper.py:96, 148)
SetUseStac(b) ==
    /\ call = NoCall
    /\ Settings.USE_STAC # b
    /\ Settings' = [Settings EXCEPT !.USE_STAC = b]
    /\ UNCHANGED <<catalog, call>>

\* A call of query_stac with its four arguments.
CallQueryStac ==
    /\ call = NoCall
    /\ \E kw \in KwargsSpace, collection \in {"sentinel-2-l2a"}, fault \in Faults :
          LET q == query_stac(Settings, catalog, fault, kw.date_start, kw.date_end,
                              collection, kw.bounding_box)
          IN  call' = [fn |-> "query_stac", fault |-> fault,
                       kwargs |-> [date_start |-> kw.date_start, date_end |-> kw.date_end,
                                   collection |-> collection,
                                   bounding_box |-> kw.bounding_box],
                       status |-> q.status,
                       returned |-> q.status = "ok",
                       rows |-> q.scenes,
                       searches |-> q.searches]
    /\ UNCHANGED <<Settings, catalog>>

CallSentinel2 ==
    /\ call = NoCall
    /\ \E kw \in KwargsSpace, thr \in Thresholds, level \in ProcessingLevels,
          fault \in Faults :
          call' = [fn |-> "sentinel2", fault |-> fault, kwargs |-> kw, cloud_cover_threshold |-> thr,
                   processing_level |-> level]
                  @@ sentinel2(Settings, catalog, fault, thr, level, kw)
    /\ UNCHANGED <<Settings, catalog>>

CallSentinel1Rtc ==
    /\ call = NoCall
    /\ \E kw \in KwargsSpace, fault \in Faults :
          call' = [fn |-> "sentinel1_rtc", fault |-> fault, kwargs |-> kw]
                  @@ sentinel1_rtc(Settings, catalog, fault, kw)
    /\ UNCHANGED <<Settings, catalog>>

\* The caller takes the outcome; the next call may start.
Done ==
    /\ call # NoCall
    /\ call' = NoCall
    /\ UNCHANGED <<Settings, catalog>>

Init ==
    /\ Settings \in SettingsSpace
    /\ catalog \in Catalogs
    /\ call = NoCall

Next ==
    \/ \E b \in BOOLEAN : SetUseStac(b)
    \/ CallQueryStac
    \/ CallSentinel2
    \/ CallSentinel1Rtc
    \/ Done

Spec == Init /\ [][Next]_vars

(***************************************************************************)
(* Properties of the STAC client                                           *)
(***************************************************************************)
S2Names == Settings.STAC_BACKEND.Sentinel2

Sensors == {"sentinel2", "sentinel1_rtc"}

S2Returned == call.fn = "sentinel2" /\ call.status = "ok"

CloudOf(scene) == scene["properties"][S2Names.cloud_cover]

\* The positions of the scenes of the response that are not above the threshold.
KeptIdx ==
    {i \in 1..Len(catalog) : CloudOf(catalog[i]) <= call.cloud_cover_threshold}

\* The position in the response of the k-th scene that is not above the threshold.
NthKept(k) == CHOOSE i \in KeptIdx : Cardinality({j \in KeptIdx : j <= i}) = k

\* t is the date d written as YYYY-MM-DD.
IsIsoDate(t, d) ==
    /\ Len(t) = 10
    /\ t[5] = "-" /\ t[8] = "-"
    /\ \A i \in {1, 2, 3, 4, 6, 7, 9, 10} : IsDigit(t[i])
    /\ NumVal(t, 1, 4) = d.year
    /\ NumVal(t, 6, 7) = d.month
    /\ NumVal(t, 9, 10) = d.day

\* t is '<date_start as YYYY-MM-DD>/<date_end as YYYY-MM-DD>'.
IsDateRange(t, date_start, date_end) ==
    /\ Len(t) = 21
    /\ t[11] = "/"
    /\ IsIsoDate(SubSeq(t, 1, 10), date_start)
    /\ IsIsoDate(SubSeq(t, 12, 21), date_end)

\* t writes the date d as year-month-day in decimal digits, however many
\* digits each number has (a blank may stand before the day).
ReadsAsDate(t, d) ==
    LET y == SplitFirst(t, "-")
        rest == SubSeq(t, Len(y) + 2, Len(t))
        m == SplitFirst(rest, "-")
        dd == SubSeq(rest, Len(m) + 2, Len(rest))
        day == IF dd # <<>> /\ dd[1] = " " THEN Tail(dd) ELSE dd
    IN  /\ Len(y) + Len(m) + Len(dd) + 2 = Len(t)
        /\ y # <<>> /\ m # <<>> /\ day # <<>>
        /\ \A i \in 1..Len(y) : IsDigit(y[i])
        /\ \A i \in 1..Len(m) : IsDigit(m[i])
        /\ \A i \in 1..Len(day) : IsDigit(day[i])
        /\ NumVal(y, 1, Len(y)) = d.year
        /\ NumVal(m, 1, Len(m)) = d.month
        /\ NumVal(day, 1, Len(day)) = d.day

\* t writes the time of day of the date-time dt as hours:minutes:seconds in
\* decimal digits, with or without a fraction of the second after a point,
\* and one more character at its end.
ReadsAsTime(t, dt) ==
    LET body == SubSeq(t, 1, Len(t) - 1)
        h == SplitFirst(body, ":")
        rest == SubSeq(body, Len(h) + 2, Len(body))
        mi == SplitFirst(rest, ":")
        sec == SubSeq(rest, Len(mi) + 2, Len(rest))
        whole == SplitFirst(sec, ".")
        frac == SubSeq(sec, Len(whole) + 2, Len(sec))
        micro == CASE Len(frac) = 0 -> 0
                   [] Len(frac) = 1 -> 100000 * NumVal(frac, 1, 1)
                   [] Len(frac) = 2 -> 10000 * NumVal(frac, 1, 2)
                   [] Len(frac) = 3 -> 1000 * NumVal(frac, 1, 3)
                   [] Len(frac) = 4 -> 100 * NumVal(frac, 1, 4)
                   [] Len(frac) = 5 -> 10 * NumVal(frac, 1, 5)
                   [] OTHER -> NumVal(frac, 1, Len(frac))
    IN  /\ Len(t) >= 1
        /\ Len(h) + Len(mi) + Len(sec) + 2 = Len(body)
        /\ h # <<>> /\ mi # <<>> /\ whole # <<>> /\ Len(frac) <= 6
        /\ \A i \in 1..Len(h) : IsDigit(h[i])
        /\ \A i \in 1..Len(mi) : IsDigit(mi[i])
        /\ \A i \in 1..Len(whole) : IsDigit(whole[i])
        /\ \A i \in 1..Len(frac) : IsDigit(frac[i])
        /\ NumVal(h, 1, Len(h)) = dt.H
        /\ NumVal(mi, 1, Len(mi)) = dt.M
        /\ NumVal(whole, 1, Len(whole)) = dt.S
        /\ micro = dt.f

\* t writes date_start before its slash and date_end after it.
ReadsAsDateRange(t, date_start, date_end) ==
    LET start == SplitFirst(t, "/")
    IN  /\ Len(start) < Len(t)
        /\ ReadsAsDate(start, date_start)
        /\ ReadsAsDate(SubSeq(t, Len(start) + 2, Len(t)), date_end)

\* The keyword arguments of the call, with the collection the sensor
\* function puts in, are the parameters of query_stac.
BindsQueryStac == DOMAIN call.kwargs \cup {"collection"} = QueryStacParams

RtcMisconfigured ==
    \/ ~Settings.USE_STAC
    \/ Settings.STAC_BACKEND # STAC_Providers.MSPC
    \/ Settings.PC_SDK_SUBSCRIPTION_KEY = ""

\* C1: sentinel1_rtc raises a ValueError, searches nothing and returns no
\* table whenever STAC use is disabled, the backend is not Microsoft
\* Planetary Computer or the subscription key is empty; otherwise it raises
\* no ValueError and searches the catalog (when its keyword arguments are
\* those query_stac takes and the backend can be opened).
C1_RtcConfigErrors ==
    call.fn = "sentinel1_rtc" =>
        IF RtcMisconfigured
        THEN call.status = "ValueError" /\ call.searches = <<>> /\ ~call.returned
        ELSE call.status # "ValueError"
             /\ ((call.fault # "open" /\ BindsQueryStac) => Len(call.searches) = 1)

C1_Witness ==
    /\ call.fn = "sentinel1_rtc"
    /\ Settings.USE_STAC
    /\ Settings.STAC_BACKEND = STAC_Providers.MSPC
    /\ Settings.PC_SDK_SUBSCRIPTION_KEY = ""
    /\ call.status = "ValueError"
    /\ BindsQueryStac
    /\ catalog # <<>>

\* C2 as stated: every sensor query called with STAC use disabled ends in a
\* ValueError and searches nothing.
C2_Original ==
    (call.fn \in Sensors /\ ~Settings.USE_STAC) =>
        (call.status = "ValueError" /\ call.searches = <<>>)

\* C2, amended: sentinel1_rtc called with STAC use disabled ends in a
\* ValueError and searches nothing; sentinel2 does not read USE_STAC and,
\* called with STAC use disabled, raises no ValueError for it and issues
\* its search all the same (when its keyword arguments are those query_stac
\* takes and the backend can be opened).
C2_UseStacDisabled ==
    /\ (call.fn = "sentinel1_rtc" /\ ~Settings.USE_STAC) =>
            (call.status = "ValueError" /\ call.searches = <<>> /\ ~call.returned)
    /\ (call.fn = "sentinel2" /\ ~Settings.USE_STAC /\ call.fault # "open"
            /\ BindsQueryStac) =>
            Len(call.searches) = 1

C2_Witness ==
    /\ call.fn = "sentinel1_rtc"
    /\ ~Settings.USE_STAC
    /\ Settings.STAC_BACKEND = STAC_Providers.MSPC
    /\ Settings.PC_SDK_SUBSCRIPTION_KEY # ""
    /\ call.fault = "none"
    /\ BindsQueryStac
    /\ call.status = "ValueError"

\* C3: sentinel2 returns one record for each scene of the response whose
\* cloudy pixel percentage is at most the threshold, none for a scene above
\* it, in the order of the response; never more rows than scenes.
C3_CloudFilter ==
    S2Returned =>
        /\ Len(call.rows) = Cardinality(KeptIdx)
        /\ Len(call.rows) <= Len(catalog)
        /\ \A k \in 1..Len(call.rows) :
              /\ call.rows[k].assets = catalog[NthKept(k)]["assets"]
              /\ call.rows[k].cloudy_pixel_percentage = CloudOf(catalog[NthKept(k)])

C3_Witness ==
    /\ S2Returned
    /\ Len(catalog) = 2
    /\ CloudOf(catalog[1]) > call.cloud_cover_threshold
    /\ CloudOf(catalog[2]) = call.cloud_cover_threshold
    /\ Len(call.rows) = 1
    /\ call.rows[1].assets = catalog[2]["assets"]

S2Fields ==
    {"product_uri", "scene_id", "spacecraft_name", "tile_id", "sensing_date",
     "cloudy_pixel_percentage", "epsg", "sensing_time", "sun_azimuth_angle",
     "sun_zenith_angle", "assets"}

\* The scene of the response that row k of the returned table was made from.
SceneOfRow(k) == catalog[NthKept(k)]

PropsOfRow(k) == SceneOfRow(k)["properties"]

\* The values scene carries under name, at the top level or in its properties.
Carried(scene, name) ==
    {scene[n] : n \in {name} \cap DOMAIN scene}
    \cup {scene["properties"][n] : n \in {name} \cap DOMAIN scene["properties"]}

\* The fields that are copied from the scene's properties as they are.
CopiedFields(k) ==
    /\ call.rows[k].spacecraft_name = PropsOfRow(k)[S2Names.platform]
    /\ call.rows[k].cloudy_pixel_percentage = PropsOfRow(k)[S2Names.cloud_cover]
    /\ call.rows[k].epsg = PropsOfRow(k)[S2Names.epsg]
    /\ call.rows[k].sun_azimuth_angle = PropsOfRow(k)[S2Names.sun_azimuth_angle]
    /\ call.rows[k].sun_zenith_angle = PropsOfRow(k)[S2Names.sun_zenith_angle]
    /\ call.rows[k].product_uri \in Carried(SceneOfRow(k), S2Names.product_uri)
    /\ call.rows[k].scene_id \in Carried(SceneOfRow(k), S2Names.scene_id)
    /\ call.rows[k].assets = SceneOfRow(k)["assets"]

\* C4 as stated: every field but assets holds the value the scene carries
\* under the name configured for it.  A date or a date-time counts as the
\* value carried when writing it out gives the text carried; the tile id
\* counts when it is the string form of the value under a configured name;
\* sensing_date, which has no name of its own, is read under the name of
\* the sensing time.
C4_Original ==
    S2Returned =>
        \A k \in 1..Len(call.rows) :
            /\ DOMAIN call.rows[k] = S2Fields
            /\ CopiedFields(k)
            /\ call.rows[k].sensing_time =
                  strptime(PropsOfRow(k)[S2Names.sensing_time], S2Names.sensing_time_fmt).dt
            /\ strftime(call.rows[k].sensing_date) = PropsOfRow(k)[S2Names.sensing_time]
            /\ IF S2Names.tile_id.list
               THEN \E i \in 1..Len(S2Names.tile_id.names) :
                        call.rows[k].tile_id = Str(PropsOfRow(k)[S2Names.tile_id.names[i]])
               ELSE call.rows[k].tile_id = PropsOfRow(k)[S2Names.tile_id.names[1]]

\* C4, amended: every record has the same eleven fields.  spacecraft_name,
\* cloudy_pixel_percentage, epsg and the two sun angles hold the value of
\* the scene's properties under the configured name, product_uri and
\* scene_id the value the scene carries under theirs, assets the scene's
\* assets.  tile_id holds the value under its configured name or, when a
\* list of names is configured, the string forms of the values under these
\* names put together in the list's order.  sensing_time holds the value
\* under the configured sensing-time name parsed into a date-time, and
\* sensing_date the date written before the "T" of that same value.
C4_UniformRecord ==
    S2Returned =>
        \A k \in 1..Len(call.rows) :
            LET row == call.rows[k]
                text == PropsOfRow(k)[S2Names.sensing_time]
                names == S2Names.tile_id.names
            IN  /\ DOMAIN row = S2Fields
                /\ CopiedFields(k)
                /\ row.sensing_time = strptime(text, S2Names.sensing_time_fmt).dt
                /\ Len(SplitFirst(text, "T")) < Len(text)
                /\ ReadsAsDate(SplitFirst(text, "T"), row.sensing_date)
                /\ ReadsAsTime(SubSeq(text, Len(SplitFirst(text, "T")) + 2, Len(text)),
                               row.sensing_time)
                /\ row.sensing_time.Y = row.sensing_date.year
                /\ row.sensing_time.m = row.sensing_date.month
                /\ row.sensing_time.d = row.sensing_date.day
                /\ IF S2Names.tile_id.list
                   THEN row.tile_id = Str(PropsOfRow(k)[names[1]])
                                      \o Str(PropsOfRow(k)[names[2]])
                                      \o Str(PropsOfRow(k)[names[3]])
                   ELSE row.tile_id = PropsOfRow(k)[names[1]]

C4_Witness ==
    /\ S2Returned
    /\ Settings.STAC_BACKEND = STAC_Providers.AWS
    /\ Len(call.rows) = 2
    /\ call.rows[1].tile_id = <<"3", "2", "T", "M", "T">>
    /\ call.rows[1].sensing_date = Date(2022, 7, 6)
    /\ call.rows[1].sensing_time.M = 40
    /\ call.rows[1].sensing_time.S = 9
    /\ call.rows[2].sensing_date = Date(2022, 7, 11)

\* C5: a call of query_stac that returns has opened the configured backend
\* and issued exactly one search, with the caller's collection and bounding
\* polygon, the date range '<date_start>/<date_end>' with both dates written
\* as YYYY-MM-DD, and the settings' MAX_ITEMS and LIMIT_ITEMS, and returns
\* the features of the answer as they are; no call issues a second search.
C5_QueryStac ==
    call.fn = "query_stac" =>
        /\ Len(call.searches) <= 1
        /\ (call.fault # "open" => Len(call.searches) = 1)
        /\ \A i \in 1..Len(call.searches) :
              /\ call.searches[i].url = Settings.STAC_BACKEND.URL
              /\ call.searches[i].collections = call.kwargs.collection
              /\ call.searches[i].intersects = call.kwargs.bounding_box
              /\ IsDateRange(call.searches[i].datetime, call.kwargs.date_start,
                             call.kwargs.date_end)
              /\ call.searches[i].max_items = Settings.MAX_ITEMS
              /\ call.searches[i].limit = Settings.LIMIT_ITEMS
        /\ (call.returned <=> call.fault = "none")
        /\ (call.returned => call.rows = catalog)

\* The keys of the properties that sentinel2 reads from every scene.
S2PropsRead ==
    {S2Names.platform, S2Names.sensing_time, S2Names.cloud_cover, S2Names.epsg,
     S2Names.sun_azimuth_angle, S2Names.sun_zenith_angle}
    \cup {S2Names.tile_id.names[i] : i \in 1..Len(S2Names.tile_id.names)}

\* scene lacks something the mapping of sentinel2 reads.
LacksS2(scene) ==
    \/ ~Has(scene, "properties")
    \/ ~Has(scene, "assets")
    \/ ~(S2PropsRead \subseteq DOMAIN scene["properties"])
    \/ Carried(scene, S2Names.product_uri) = {}
    \/ Carried(scene, S2Names.scene_id) = {}

\* The sensing time of scene, when it carries one, is a date-time in the
\* configured format, and what it holds before its "T" is a date.
SensingTimeParses(scene) ==
    (Has(scene, "properties") /\ Has(scene["properties"], S2Names.sensing_time)) =>
        LET text == scene["properties"][S2Names.sensing_time]
        IN  /\ strptime(text, S2Names.sensing_time_fmt).ok
            /\ strptime(SplitFirst(text, "T"), FmtDate).ok

LacksS1(scene) == ~Has(scene, "properties") \/ ~Has(scene, "assets")

\* C8: a sensor query searches at most once; when the search fails, or when
\* a scene of the response lacks something the mapping reads (also a scene
\* above the cloud-cover threshold), the call ends with the error, without a
\* second search and without a table, not even a partial one.  (The search
\* is issued when the keyword arguments are those query_stac takes and, for
\* sentinel1_rtc, the settings pass its checks.)
C8_NoRetryNoPartial ==
    call.fn \in Sensors =>
        /\ Len(call.searches) <= 1
        /\ (call.returned <=> call.status = "ok")
        /\ (~call.returned => call.rows = <<>>)
        /\ (call.fault # "none" /\ BindsQueryStac
              /\ ~(call.fn = "sentinel1_rtc" /\ RtcMisconfigured))
              => call.status = "APIError"
        /\ (call.fn = "sentinel2" /\ call.fault = "none" /\ BindsQueryStac
              /\ \E i \in 1..Len(catalog) : LacksS2(catalog[i]))
              => call.status \in {"KeyError", "ValueError"}
        /\ (call.fn = "sentinel2" /\ call.fault = "none" /\ BindsQueryStac
              /\ (\E i \in 1..Len(catalog) : LacksS2(catalog[i]))
              /\ (\A i \in 1..Len(catalog) : SensingTimeParses(catalog[i])))
              => call.status = "KeyError"
        /\ (call.fn = "sentinel1_rtc" /\ call.fault = "none" /\ BindsQueryStac
              /\ ~RtcMisconfigured
              /\ \E i \in 1..Len(catalog) : LacksS1(catalog[i]))
              => call.status = "KeyError"

\* The first scene maps and would be kept; the second lacks its platform and
\* lies above the threshold.
C8_Witness ==
    /\ call.fn = "sentinel2"
    /\ call.fault = "none"
    /\ Len(catalog) = 2
    /\ ~LacksS2(catalog[1])
    /\ CloudOf(catalog[1]) <= call.cloud_cover_threshold
    /\ SensingTimeParses(catalog[1])
    /\ Has(catalog[2], "properties")
    /\ ~Has(catalog[2]["properties"], S2Names.platform)
    /\ Has(catalog[2]["properties"], S2Names.cloud_cover)
    /\ CloudOf(catalog[2]) > call.cloud_cover_threshold
    /\ call.status = "KeyError"
    /\ ~call.returned
    /\ Len(call.searches) = 1

\* C9: product_uri is taken from the scene item when the configured name is
\* a key of it and from the properties only otherwise; scene_id is taken
\* from the properties when the configured name is a key of them and from
\* the scene item only otherwise; a name in neither place is a KeyError.
C9_IdentifierLookup ==
    /\ S2Returned =>
          \A k \in 1..Len(call.rows) :
              /\ call.rows[k].product_uri =
                    IF Has(SceneOfRow(k), S2Names.product_uri)
                    THEN SceneOfRow(k)[S2Names.product_uri]
                    ELSE PropsOfRow(k)[S2Names.product_uri]
              /\ call.rows[k].scene_id =
                    IF Has(PropsOfRow(k), S2Names.scene_id)
                    THEN PropsOfRow(k)[S2Names.scene_id]
                    ELSE SceneOfRow(k)[S2Names.scene_id]
    /\ (call.fn = "sentinel2" /\ call.fault = "none" /\ BindsQueryStac) =>
          \A i \in 1..Len(catalog) :
              (/\ Has(catalog[i], "properties")
               /\ \/ Carried(catalog[i], S2Names.product_uri) = {}
                  \/ Carried(catalog[i], S2Names.scene_id) = {})
              => /\ call.status # "ok"
                 /\ (\A j \in 1..(i - 1) :
                        ~LacksS2(catalog[j]) /\ SensingTimeParses(catalog[j]))
                        => call.status = "KeyError"

\* Both names are keys of the scene item and of its properties, with
\* different values: product_uri comes from the item, scene_id from the
\* properties.
C9_Witness ==
    /\ S2Returned
    /\ Len(call.rows) >= 1
    /\ Has(SceneOfRow(1), S2Names.product_uri)
    /\ Has(PropsOfRow(1), S2Names.product_uri)
    /\ SceneOfRow(1)[S2Names.product_uri] # PropsOfRow(1)[S2Names.product_uri]
    /\ Has(SceneOfRow(1), S2Names.scene_id)
    /\ Has(PropsOfRow(1), S2Names.scene_id)
    /\ SceneOfRow(1)[S2Names.scene_id] # PropsOfRow(1)[S2Names.scene_id]
    /\ call.rows[1].product_uri = SceneOfRow(1)[S2Names.product_uri]
    /\ call.rows[1].scene_id = PropsOfRow(1)[S2Names.scene_id]

\* C10: sentinel2 searches the collection the settings configure for the
\* processing level and sentinel1_rtc searches 'sentinel-1-rtc', whatever
\* 'collection' the caller passed; the caller's dates and bounding box are
\* those of the search, the date range writing date_start before its slash
\* and date_end after it.
C10_CollectionFixed ==
    call.fn \in Sensors =>
        \A i \in 1..Len(call.searches) :
            /\ (call.fn = "sentinel2" =>
                  call.searches[i].collections =
                      (IF call.processing_level = "L1C"
                       THEN Settings.STAC_BACKEND.S2L1C
                       ELSE Settings.STAC_BACKEND.S2L2A))
            /\ (call.fn = "sentinel1_rtc" =>
                  call.searches[i].collections = "sentinel-1-rtc")
            /\ call.searches[i].intersects = call.kwargs.bounding_box
            /\ ReadsAsDateRange(call.searches[i].datetime, call.kwargs.date_start,
                                call.kwargs.date_end)

C10_Witness ==
    /\ call.fn = "sentinel2"
    /\ Has(call.kwargs, "collection")
    /\ call.kwargs.collection = "landsat-c2-l2"
    /\ call.processing_level = "L1C"
    /\ Len(call.searches) = 1
    /\ call.searches[1].collections = Settings.STAC_BACKEND.S2L1C
    /\ call.searches[1].intersects = "POLYGON_B"
    /\ call.kwargs.date_start = Date(999, 12, 9)
    /\ call.searches[1].datetime =
          <<"9", "9", "9", "-", "1", "2", "-", "0", "9", "/",
            "2", "0", "2", "3", "-", "0", "1", "-", "1", "5">>
    /\ call.status = "ok"

==========================================================================
